---- MODULE Spec2Model ----
(***************************************************************************)
(* The css selector builder of src/src/05-objects-tasks.js: class Selector *)
(* (the fluent builder) and the object cssSelectorBuilder (the facade).    *)
(* Strings are TLA+ strings, arrays are sequences, an object is a record.  *)
(* A method is an operator from the receiver (and its arguments) to a      *)
(* completion record: the receiver after the call, how the call completed  *)
(* ("this": returned the receiver, "string": returned a string, "throw":   *)
(* threw an Error) and the string returned or the message thrown.          *)
(***************************************************************************)
EXTENDS Integers, Sequences, FiniteSets, TLC

\* ------------------------------------------------------------- bounds
\* The most Selector objects the caller creates through the facade.
MaxChains == 2
\* The most fragments stored over all the caller's Selector objects.
MaxFragments == 2
\* The most combine calls the caller makes.
MaxCombines == 3

\* The values the caller passes to the builder methods.
Values == {"a", "b"}
\* The combinators the caller passes to combine ("?" is no css combinator).
Combinators == {"+", "?"}

\* ------------------------------------------------------ class Selector
\* Object.keys(this.selectors): the insertion order of the constructor.
ObjectKeys ==
  <<"element", "id", "class", "attr", "pseudoClass", "pseudoElement", "combination">>

\* The six builder methods, which share their names with their categories.
Methods == {"element", "id", "class", "attr", "pseudoClass", "pseudoElement"}

\* new Selector()
NewSelector ==
  [selectors |->
     [element |-> <<>>, id |-> <<>>, class |-> <<>>, attr |-> <<>>,
      pseudoClass |-> <<>>, pseudoElement |-> <<>>, combination |-> <<>>],
   errors |->
     [duplicate |-> "Element, id and pseudo-element should not occur more then one time inside the selector",
      order |-> "Selector parts should be arranged in the following order: element, id, class, attribute, pseudo-class, pseudo-element"]]

\* `return this`
ReturnThis(self) == [self |-> self, type |-> "this", value |-> ""]

\* `return <string>`
ReturnString(self, s) == [self |-> self, type |-> "string", value |-> s]

\* `throw new Error(message)`
Throw(self, message) == [self |-> self, type |-> "throw", value |-> message]

\* Array.prototype.indexOf on an array of strings, 0-based, -1 when absent.
indexOf(arr, x) ==
  IF \E i \in 1..Len(arr) : arr[i] = x
  THEN (CHOOSE i \in 1..Len(arr) : arr[i] = x /\ \A j \in 1..(i - 1) : arr[j] # x) - 1
  ELSE -1

\* Array.prototype.join on an array of strings.
RECURSIVE join(_, _)
join(arr, sep) ==
  IF Len(arr) = 0 THEN ""
  ELSE IF Len(arr) = 1 THEN arr[1]
  ELSE arr[1] \o sep \o join(Tail(arr), sep)

\* An array used as the left operand of + with a string: Array.prototype.toString.
ArrayToString(arr) == join(arr, ",")

\* Object.values(this.selectors), in the order of Object.keys.
ObjectValues(selectors) == [i \in 1..Len(ObjectKeys) |-> selectors[ObjectKeys[i]]]

\* A wrong direction of the comparison: earlier categories block, later ones do not.
checkOrder_before(self, selector) ==
  LET selectorIndex == indexOf(ObjectKeys, selector)
  IN  Cardinality({index \in 0..(Len(ObjectKeys) - 1) :
        Len(self.selectors[ObjectKeys[index + 1]]) > 0 /\ index < selectorIndex}) # 0

\* An off-by-one comparison: the category itself blocks too.
checkOrder_inclusive(self, selector) ==
  LET selectorIndex == indexOf(ObjectKeys, selector)
  IN  Cardinality({index \in 0..(Len(ObjectKeys) - 1) :
        Len(self.selectors[ObjectKeys[index + 1]]) > 0 /\ index >= selectorIndex}) # 0

\* An off-by-one comparison the other way: the next category does not block.
checkOrder_skipNext(self, selector) ==
  LET selectorIndex == indexOf(ObjectKeys, selector)
  IN  Cardinality({index \in 0..(Len(ObjectKeys) - 1) :
        Len(self.selectors[ObjectKeys[index + 1]]) > 0 /\ index > selectorIndex + 1}) # 0

checkOrder(self, selector) ==
  LET selectorIndex == indexOf(ObjectKeys, selector)
      len == Cardinality({index \in 0..(Len(ObjectKeys) - 1) :
               Len(self.selectors[ObjectKeys[index + 1]]) > 0 /\ index > selectorIndex})
  IN  len # 0

\* The order check before the duplicate check.
Selector_element_orderFirst(self, value) ==
  IF checkOrder(self, "element") THEN Throw(self, self.errors.order)
  ELSE IF Len(self.selectors.element) # 0 THEN Throw(self, self.errors.duplicate)
  ELSE ReturnThis([self EXCEPT !.selectors.element = Append(@, value)])

Selector_element(self, value) ==
  IF Len(self.selectors.element) # 0 THEN Throw(self, self.errors.duplicate)
  ELSE IF checkOrder(self, "element") THEN Throw(self, self.errors.order)
  ELSE ReturnThis([self EXCEPT !.selectors.element = Append(@, value)])

\* No duplicate check.
Selector_id_noDuplicateCheck(self, value) ==
  IF checkOrder(self, "id") THEN Throw(self, self.errors.order)
  ELSE ReturnThis([self EXCEPT !.selectors.id = Append(@, "#" \o value)])

\* The order check before the duplicate check.
Selector_id_orderFirst(self, value) ==
  IF checkOrder(self, "id") THEN Throw(self, self.errors.order)
  ELSE IF Len(self.selectors.id) # 0 THEN Throw(self, self.errors.duplicate)
  ELSE ReturnThis([self EXCEPT !.selectors.id = Append(@, "#" \o value)])

Selector_id(self, value) ==
  IF Len(self.selectors.id) # 0 THEN Throw(self, self.errors.duplicate)
  ELSE IF checkOrder(self, "id") THEN Throw(self, self.errors.order)
  ELSE ReturnThis([self EXCEPT !.selectors.id = Append(@, "#" \o value)])

\* The push before the check: a rejected call leaves its fragment behind.
Selector_class_pushFirst(self, value) ==
  LET pushed == [self EXCEPT !.selectors.class = Append(@, "." \o value)]
  IN  IF checkOrder(self, "class") THEN Throw(pushed, self.errors.order)
      ELSE ReturnThis(pushed)

Selector_class(self, value) ==
  IF checkOrder(self, "class") THEN Throw(self, self.errors.order)
  ELSE ReturnThis([self EXCEPT !.selectors.class = Append(@, "." \o value)])

\* unshift instead of push: the fragments of a category in reverse call order.
Selector_attr_unshift(self, value) ==
  IF checkOrder(self, "attr") THEN Throw(self, self.errors.order)
  ELSE ReturnThis([self EXCEPT !.selectors.attr = <<"[" \o value \o "]">> \o @])

Selector_attr(self, value) ==
  IF checkOrder(self, "attr") THEN Throw(self, self.errors.order)
  ELSE ReturnThis([self EXCEPT !.selectors.attr = Append(@, "[" \o value \o "]")])

Selector_pseudoClass(self, value) ==
  IF checkOrder(self, "pseudoClass") THEN Throw(self, self.errors.order)
  ELSE ReturnThis([self EXCEPT !.selectors.pseudoClass = Append(@, ":" \o value)])

Selector_pseudoElement(self, value) ==
  IF Len(self.selectors.pseudoElement) # 0 THEN Throw(self, self.errors.duplicate)
  ELSE IF checkOrder(self, "pseudoElement") THEN Throw(self, self.errors.order)
  ELSE ReturnThis([self EXCEPT !.selectors.pseudoElement = Append(@, "::" \o value)])

\* A rendering that consumes what it renders (shift() in place of the reduce).
Selector_stringify_consuming(self) ==
  LET values == ObjectValues(self.selectors)
      acc[i \in 1..Len(values)] ==
        IF i = 1 THEN ArrayToString(values[1]) ELSE acc[i - 1] \o join(values[i], "")
  IN  ReturnString([self EXCEPT !.selectors.class = <<>>], acc[Len(values)])

\* reduce without an initial value: the accumulator starts as the first array
\* (element), which + turns into a string; every other array is join('')ed.
Selector_stringify(self) ==
  LET values == ObjectValues(self.selectors)
      acc[i \in 1..Len(values)] ==
        IF i = 1 THEN ArrayToString(values[1]) ELSE acc[i - 1] \o join(values[i], "")
  IN  ReturnString(self, acc[Len(values)])

\* this[method](value) for the six builder methods.
Invoke(self, method, value) ==
  CASE method = "element" -> Selector_element(self, value)
    [] method = "id" -> Selector_id(self, value)
    [] method = "class" -> Selector_class(self, value)
    [] method = "attr" -> Selector_attr(self, value)
    [] method = "pseudoClass" -> Selector_pseudoClass(self, value)
    [] method = "pseudoElement" -> Selector_pseudoElement(self, value)

\* ------------------------------------------------- cssSelectorBuilder
\* A facade that starts with an empty result (`result: ''` in the literal).
NewFacade_emptyResult == [hasResult |-> TRUE, result |-> ""]

\* The facade object literal: it has no `result` property until combine sets one.
NewFacade == [hasResult |-> FALSE, result |-> ""]

\* `return this.result` of an object without the property.
ReturnUndefined(self) == [self |-> self, type |-> "undefined", value |-> ""]

cssSelectorBuilder_element(value) == Selector_element(NewSelector, value)

cssSelectorBuilder_id(value) == Selector_id(NewSelector, value)

cssSelectorBuilder_class(value) == Selector_class(NewSelector, value)

cssSelectorBuilder_attr(value) == Selector_attr(NewSelector, value)

cssSelectorBuilder_pseudoClass(value) == Selector_pseudoClass(NewSelector, value)

cssSelectorBuilder_pseudoElement(value) == Selector_pseudoElement(NewSelector, value)

cssSelectorBuilder_stringify(this) ==
  IF this.hasResult THEN ReturnString(this, this.result) ELSE ReturnUndefined(this)

\* A reference held by the caller: to a Selector of the heap (at: its index) or to
\* the facade (at: which combine call returned it, which the code cannot tell).
SelectorRef(i) == [kind |-> "Selector", at |-> i]
FacadeRef(k) == [kind |-> "facade", at |-> k]
NoRef == [kind |-> "none", at |-> 0]

\* ref.stringify(): the method of whatever object the reference points to. The
\* result is the completion and the heap and facade after the call.
StringifyRef(this, heap, ref) ==
  IF ref.kind = "Selector"
  THEN LET r == Selector_stringify(heap[ref.at])
       IN  [completion |-> r, heap |-> [heap EXCEPT ![ref.at] = r.self], this |-> this]
  ELSE LET r == cssSelectorBuilder_stringify(this)
       IN  [completion |-> r, heap |-> heap, this |-> r.self]

\* A returned value inside a template literal.
TemplateString(completion) ==
  IF completion.type = "undefined" THEN "undefined" ELSE completion.value

\* The template without its spaces.
cssSelectorBuilder_combine_noSpaces(this, heap, selector1, combinator, selector2) ==
  LET s1 == StringifyRef(this, heap, selector1)
      s2 == StringifyRef(s1.this, s1.heap, selector2)
  IN  [self |-> [s2.this EXCEPT
                   !.hasResult = TRUE,
                   !.result = TemplateString(s1.completion) \o combinator
                                \o TemplateString(s2.completion)],
       heap |-> s2.heap, type |-> "this", value |-> ""]

\* A result that is not overwritten (this.result = this.result || `...`).
cssSelectorBuilder_combine_keepFirst(this, heap, selector1, combinator, selector2) ==
  LET s1 == StringifyRef(this, heap, selector1)
      s2 == StringifyRef(s1.this, s1.heap, selector2)
  IN  [self |-> [s2.this EXCEPT
                   !.hasResult = TRUE,
                   !.result = IF this.hasResult THEN this.result
                              ELSE TemplateString(s1.completion) \o " " \o combinator
                                     \o " " \o TemplateString(s2.completion)],
       heap |-> s2.heap, type |-> "this", value |-> ""]

\* The template literal evaluates selector1.stringify(), then selector2.stringify(),
\* and the string is assigned to this.result.
cssSelectorBuilder_combine(this, heap, selector1, combinator, selector2) ==
  LET s1 == StringifyRef(this, heap, selector1)
      s2 == StringifyRef(s1.this, s1.heap, selector2)
  IN  [self |-> [s2.this EXCEPT
                   !.hasResult = TRUE,
                   !.result = TemplateString(s1.completion) \o " " \o combinator \o " "
                                \o TemplateString(s2.completion)],
       heap |-> s2.heap, type |-> "this", value |-> ""]

\* ----------------------------------------------------------- Rectangle
\* The most |width| and |height| the caller passes to Rectangle.
MaxSide == 5

\* Both fields set from the width.
Rectangle_widthTwice(width, height) == [width |-> width, height |-> width]

\* new Rectangle(width, height): the two fields; getArea is an arrow function
\* closed over the instance, modelled by Rectangle_getArea.
Rectangle(width, height) == [width |-> width, height |-> height]

\* r.getArea(): the product of two integers, exact below 2^53.
Rectangle_getArea(this) == this.width * this.height

\* ---------------------------------------------------- getJSON, fromJSON
\* The most characters of a string and the most elements of a sequence or mapping
\* that is serialized.
MaxLen == 1

\* A JavaScript value: a number (an integer here), a string (its characters), a
\* boolean, null, an array (items with empty keys) or an object (items in insertion
\* order); proto names the prototype of an array or an object.
JSValue(type, num, str, bool, items, proto) ==
  [type |-> type, num |-> num, str |-> str, bool |-> bool, items |-> items,
   proto |-> proto]

JSNull == JSValue("null", 0, <<>>, FALSE, <<>>, "none")
JSNumber(n) == JSValue("number", n, <<>>, FALSE, <<>>, "none")
JSString(s) == JSValue("string", 0, s, FALSE, <<>>, "none")
JSBoolean(b) == JSValue("boolean", 0, <<>>, b, <<>>, "none")
Item(key, value) == [key |-> key, value |-> value]
JSArray(elements) ==
  JSValue("array", 0, <<>>, FALSE,
          [i \in 1..Len(elements) |-> Item(<<>>, elements[i])], "Array.prototype")
JSObject(items) == JSValue("object", 0, <<>>, FALSE, items, "Object.prototype")

ReturnValue(value) == [type |-> "return", value |-> value, error |-> ""]
ThrowError(error) == [type |-> "throw", value |-> JSNull, error |-> error]

Digits == <<"0", "1", "2", "3", "4", "5", "6", "7", "8", "9">>
DigitValue(char) == (CHOOSE d \in 1..10 : Digits[d] = char) - 1
IsDigit(char) == \E d \in 1..10 : Digits[d] = char

\* JSON.stringify of an integer: an optional minus sign and the decimal digits.
RECURSIVE NumberToString(_)
NumberToString(n) ==
  IF n < 0 THEN <<"-">> \o NumberToString(0 - n)
  ELSE IF n < 10 THEN <<Digits[n + 1]>>
  ELSE NumberToString(n \div 10) \o <<Digits[(n % 10) + 1]>>

\* JSON.stringify of a string: in double quotes, with a backslash put before each
\* double quote and each backslash.
RECURSIVE Escape(_)
Escape(s) ==
  IF s = <<>> THEN <<>>
  ELSE (IF Head(s) \in {"\"", "\\"} THEN <<"\\", Head(s)>> ELSE <<Head(s)>>)
         \o Escape(Tail(s))

QuoteJSONString(s) == <<"\"">> \o Escape(s) \o <<"\"">>

\* JSON.stringify(value), with no indentation: the characters of the text.
RECURSIVE JSON_stringify(_)
RECURSIVE SerializeItems(_, _)
JSON_stringify(value) ==
  CASE value.type = "null" -> <<"n", "u", "l", "l">>
    [] value.type = "boolean" ->
         IF value.bool THEN <<"t", "r", "u", "e">> ELSE <<"f", "a", "l", "s", "e">>
    [] value.type = "number" -> NumberToString(value.num)
    [] value.type = "string" -> QuoteJSONString(value.str)
    [] value.type = "array" -> <<"[">> \o SerializeItems(value.items, FALSE) \o <<"]">>
    [] value.type = "object" -> <<"{">> \o SerializeItems(value.items, TRUE) \o <<"}">>

SerializeItems(items, keyed) ==
  IF items = <<>> THEN <<>>
  ELSE (IF keyed THEN QuoteJSONString(items[1].key) \o <<":">> ELSE <<>>)
         \o JSON_stringify(items[1].value)
         \o (IF Len(items) > 1 THEN <<",">> \o SerializeItems(Tail(items), keyed)
             ELSE <<>>)

\* function getJSON(obj)
getJSON(obj) == JSON_stringify(obj)

\* What the parser made of the head of a text, and the text left.
Failed == [ok |-> FALSE, value |-> JSNull, rest |-> <<>>]
Parsed(value, rest) == [ok |-> TRUE, value |-> value, rest |-> rest]

StartsWith(text, word) == Len(text) >= Len(word) /\ SubSeq(text, 1, Len(word)) = word
Drop(text, n) == SubSeq(text, n + 1, Len(text))

RECURSIVE SkipSpace(_)
SkipSpace(text) ==
  IF text # <<>> /\ Head(text) = " " THEN SkipSpace(Tail(text)) ELSE text

ParseWord(text, word, value) ==
  IF StartsWith(text, word) THEN Parsed(value, Drop(text, Len(word))) ELSE Failed

RECURSIVE ParseDigits(_, _)
ParseDigits(text, n) ==
  IF text # <<>> /\ IsDigit(Head(text))
  THEN ParseDigits(Tail(text), 10 * n + DigitValue(Head(text)))
  ELSE Parsed(JSNumber(n), text)

\* An integer: an optional minus sign, then 0 or digits that do not start with 0.
ParseNumber(text) ==
  LET negative == Head(text) = "-"
      digits == IF negative THEN Tail(text) ELSE text
      parsed == IF Head(digits) = "0" THEN Parsed(JSNumber(0), Tail(digits))
                ELSE ParseDigits(digits, 0)
  IN  IF digits = <<>> \/ ~IsDigit(Head(digits)) THEN Failed
      ELSE IF negative THEN Parsed(JSNumber(0 - parsed.value.num), parsed.rest)
      ELSE parsed

\* The characters of a string after its opening quote, up to the closing one; a
\* backslash makes the double quote, backslash or slash after it a character.
RECURSIVE ParseChars(_, _)
ParseChars(text, chars) ==
  IF text = <<>> THEN Failed
  ELSE IF Head(text) = "\"" THEN Parsed(JSString(chars), Tail(text))
  ELSE IF Head(text) = "\\"
  THEN IF Len(text) >= 2 /\ text[2] \in {"\"", "\\", "/"}
       THEN ParseChars(Drop(text, 2), Append(chars, text[2]))
       ELSE Failed
  ELSE ParseChars(Tail(text), Append(chars, Head(text)))

\* A member of an object being parsed: a key met again keeps its place and takes
\* the later value.
Put(items, key, value) ==
  IF \E i \in 1..Len(items) : items[i].key = key
  THEN [i \in 1..Len(items) |->
          IF items[i].key = key THEN Item(key, value) ELSE items[i]]
  ELSE Append(items, Item(key, value))

RECURSIVE ParseValue(_)
RECURSIVE ParseElements(_, _)
RECURSIVE ParseMembers(_, _)
ParseValue(text) ==
  LET t == SkipSpace(text)
  IN  IF t = <<>> THEN Failed
      ELSE CASE Head(t) = "n" -> ParseWord(t, <<"n", "u", "l", "l">>, JSNull)
             [] Head(t) = "t" -> ParseWord(t, <<"t", "r", "u", "e">>, JSBoolean(TRUE))
             [] Head(t) = "f" ->
                  ParseWord(t, <<"f", "a", "l", "s", "e">>, JSBoolean(FALSE))
             [] Head(t) = "\"" -> ParseChars(Tail(t), <<>>)
             [] Head(t) = "-" \/ IsDigit(Head(t)) -> ParseNumber(t)
             [] Head(t) = "[" ->
                  LET u == SkipSpace(Tail(t))
                  IN  IF u # <<>> /\ Head(u) = "]" THEN Parsed(JSArray(<<>>), Tail(u))
                      ELSE ParseElements(u, <<>>)
             [] Head(t) = "{" ->
                  LET u == SkipSpace(Tail(t))
                  IN  IF u # <<>> /\ Head(u) = "}" THEN Parsed(JSObject(<<>>), Tail(u))
                      ELSE ParseMembers(u, <<>>)
             [] OTHER -> Failed

\* The elements of an array after "[" or ",", up to "]".
ParseElements(text, elements) ==
  LET element == ParseValue(text)
      t == SkipSpace(element.rest)
  IN  IF ~element.ok \/ t = <<>> THEN Failed
      ELSE IF Head(t) = "," THEN ParseElements(Tail(t), Append(elements, element.value))
      ELSE IF Head(t) = "]"
      THEN Parsed(JSArray(Append(elements, element.value)), Tail(t))
      ELSE Failed

\* The members of an object after "{" or ",", up to "}".
ParseMembers(text, items) ==
  LET t == SkipSpace(text)
      key == IF t # <<>> /\ Head(t) = "\"" THEN ParseChars(Tail(t), <<>>) ELSE Failed
      colon == SkipSpace(key.rest)
      member == IF key.ok /\ colon # <<>> /\ Head(colon) = ":"
                THEN ParseValue(Tail(colon)) ELSE Failed
      u == SkipSpace(member.rest)
  IN  IF ~member.ok \/ u = <<>> THEN Failed
      ELSE IF Head(u) = ","
      THEN ParseMembers(Tail(u), Put(items, key.value.str, member.value))
      ELSE IF Head(u) = "}"
      THEN Parsed(JSObject(Put(items, key.value.str, member.value)), Tail(u))
      ELSE Failed

\* JSON.parse(text): the value the whole text stands for, or a SyntaxError.
JSON_parse(text) ==
  LET parsed == ParseValue(text)
  IN  IF parsed.ok /\ SkipSpace(parsed.rest) = <<>> THEN ReturnValue(parsed.value)
      ELSE ThrowError("SyntaxError")

\* Object.setPrototypeOf(object, proto), proto an object or null: a TypeError for
\* null, no effect on a number, a string or a boolean.
Object_setPrototypeOf(object, proto) ==
  IF object.type = "null" THEN ThrowError("TypeError")
  ELSE IF object.type \in {"array", "object"}
  THEN ReturnValue([object EXCEPT !.proto = proto])
  ELSE ReturnValue(object)

\* fromJSON that returns what it parsed as it is.
fromJSON_noRebind(proto, json) == JSON_parse(json)

\* function fromJSON(proto, json)
fromJSON(proto, json) ==
  LET object == JSON_parse(json)
  IN  IF object.type = "throw" THEN object
      ELSE Object_setPrototypeOf(object.value, proto)

\* --------------------------------------------------------------- state
VARIABLES
  chains,   \* the Selector objects the caller holds, in creation order
  facade,   \* the cssSelectorBuilder object
  last,     \* the last call made: its method, receiver, arguments and completion
  history,  \* per Selector, the accepted builder calls so far: <<method, value>>
  denoted,  \* per combine call so far, the selector text its operands denoted
  locals    \* what the caller holds from Rectangle, getJSON and fromJSON

vars == <<chains, facade, last, history, denoted, locals>>

\* The number of fragments a Selector stores.
Fragments(self) ==
  LET n[i \in 0..Len(ObjectKeys)] ==
        IF i = 0 THEN 0 ELSE n[i - 1] + Len(self.selectors[ObjectKeys[i]])
  IN  n[Len(ObjectKeys)]

TotalFragments(heap) ==
  LET n[i \in 0..Len(heap)] == IF i = 0 THEN 0 ELSE n[i - 1] + Fragments(heap[i])
  IN  n[Len(heap)]

Call(op, on, completion) ==
  [op |-> op, on |-> on, type |-> completion.type, value |-> completion.value,
   left |-> NoRef, combinator |-> "", right |-> NoRef, text |-> ""]

NoCall ==
  [op |-> "none", on |-> 0, type |-> "none", value |-> "",
   left |-> NoRef, combinator |-> "", right |-> NoRef, text |-> ""]

\* The caller holds nothing from Rectangle, getJSON or fromJSON.
NoLocals ==
  [op |-> "none", width |-> 0, height |-> 0, rect |-> Rectangle(0, 0), area |-> 0,
   obj |-> JSNull, text |-> <<>>, proto |-> "none", json |-> <<>>,
   result |-> ReturnValue(JSNull)]

Init ==
  /\ chains = <<>>
  /\ facade = NewFacade
  /\ last = NoCall
  /\ history = <<>>
  /\ denoted = <<>>
  /\ locals = NoLocals

\* cssSelectorBuilder[method](value): a new Selector, kept when the call returns it.
Create(method, value, r) ==
  /\ Len(chains) < MaxChains
  /\ r.type = "throw" \/ TotalFragments(Append(chains, r.self)) <= MaxFragments
  /\ chains' = IF r.type = "this" THEN Append(chains, r.self) ELSE chains
  /\ history' = IF r.type = "this" THEN Append(history, <<<<method, value>>>>) ELSE history
  /\ last' = Call(method, 0, r)
  /\ UNCHANGED <<facade, denoted, locals>>

FacadeElement(value) == Create("element", value, cssSelectorBuilder_element(value))

FacadeId(value) == Create("id", value, cssSelectorBuilder_id(value))

FacadeClass(value) == Create("class", value, cssSelectorBuilder_class(value))

FacadeAttr(value) == Create("attr", value, cssSelectorBuilder_attr(value))

FacadePseudoClass(value) ==
  Create("pseudoClass", value, cssSelectorBuilder_pseudoClass(value))

FacadePseudoElement(value) ==
  Create("pseudoElement", value, cssSelectorBuilder_pseudoElement(value))

\* chains[b][method](value): the receiver is left as the method left it, whether it
\* returned or threw.
Chain(b, method, value, r) ==
  /\ r.type = "throw" \/ TotalFragments([chains EXCEPT ![b] = r.self]) <= MaxFragments
  /\ chains' = [chains EXCEPT ![b] = r.self]
  /\ history' = IF r.type = "this"
                THEN [history EXCEPT ![b] = Append(@, <<method, value>>)]
                ELSE history
  /\ last' = Call(method, b, r)
  /\ UNCHANGED <<facade, denoted, locals>>

Element(b, value) == Chain(b, "element", value, Selector_element(chains[b], value))

Id(b, value) == Chain(b, "id", value, Selector_id(chains[b], value))

Class(b, value) == Chain(b, "class", value, Selector_class(chains[b], value))

Attr(b, value) == Chain(b, "attr", value, Selector_attr(chains[b], value))

PseudoClass(b, value) ==
  Chain(b, "pseudoClass", value, Selector_pseudoClass(chains[b], value))

PseudoElement(b, value) ==
  Chain(b, "pseudoElement", value, Selector_pseudoElement(chains[b], value))

\* chains[b].stringify()
Stringify(b) ==
  LET r == Selector_stringify(chains[b])
  IN  /\ chains' = [chains EXCEPT ![b] = r.self]
      /\ last' = Call("stringify", b, r)
      /\ UNCHANGED <<facade, history, denoted, locals>>

Next ==
  \/ \E value \in Values : FacadeElement(value)
  \/ \E value \in Values : FacadeId(value)
  \/ \E value \in Values : FacadeClass(value)
  \/ \E value \in Values : FacadeAttr(value)
  \/ \E value \in Values : FacadePseudoClass(value)
  \/ \E value \in Values : FacadePseudoElement(value)
  \/ \E b \in 1..Len(chains), value \in Values : Element(b, value)
  \/ \E b \in 1..Len(chains), value \in Values : Id(b, value)
  \/ \E b \in 1..Len(chains), value \in Values : Class(b, value)
  \/ \E b \in 1..Len(chains), value \in Values : Attr(b, value)
  \/ \E b \in 1..Len(chains), value \in Values : PseudoClass(b, value)
  \/ \E b \in 1..Len(chains), value \in Values : PseudoElement(b, value)
  \/ \E b \in 1..Len(chains) : Stringify(b)

\* The caller builds selectors: facade factory calls, builder calls, stringify.
Spec == Init /\ [][Next]_vars

\* ------------------------------------------------- what a chain denotes
\* The fragment a builder call writes, as the selector grammar of the header
\* comment has it: element#id.class[attr]:pseudoClass::pseudoElement.
Fragment(method, value) ==
  CASE method = "element" -> value
    [] method = "id" -> "#" \o value
    [] method = "class" -> "." \o value
    [] method = "attr" -> "[" \o value \o "]"
    [] method = "pseudoClass" -> ":" \o value
    [] method = "pseudoElement" -> "::" \o value

\* The canonical rank of a category: element < id < class < attribute <
\* pseudoClass < pseudoElement.
Rank(method) ==
  CASE method = "element" -> 1
    [] method = "id" -> 2
    [] method = "class" -> 3
    [] method = "attr" -> 4
    [] method = "pseudoClass" -> 5
    [] method = "pseudoElement" -> 6

Category(rank) == CHOOSE method \in Methods : Rank(method) = rank

\* The fragments of the calls of one category, in call order, with no separator.
RECURSIVE RenderCategory(_, _)
RenderCategory(calls, method) ==
  IF calls = <<>> THEN ""
  ELSE (IF calls[1][1] = method THEN Fragment(method, calls[1][2]) ELSE "")
         \o RenderCategory(Tail(calls), method)

\* The selector text a sequence of accepted calls denotes: category by category in
\* canonical order, each category in call order, with no separator.
Rendering(calls) ==
  LET text[rank \in 0..6] ==
        IF rank = 0 THEN "" ELSE text[rank - 1] \o RenderCategory(calls, Category(rank))
  IN  text[6]

\* The selector text a reference denoted when it was built.
Denotes(ref) ==
  IF ref.kind = "Selector" THEN Rendering(history[ref.at]) ELSE denoted[ref.at]

\* ------------------------------------------------------------ combine
\* The Selector a sequence of builder calls <<method, value>> builds, each call
\* made on what the one before it left.
Build(calls) ==
  LET built[i \in 0..Len(calls)] ==
        IF i = 0 THEN NewSelector
        ELSE Invoke(built[i - 1], calls[i][1], calls[i][2]).self
  IN  built[Len(calls)]

\* The two chains the caller has built before it combines:
\* builder.element('a').id('b') and builder.class('a').
BuiltCalls == << << <<"element", "a">>, <<"id", "b">> >>, << <<"class", "a">> >> >>

\* cssSelectorBuilder.combine(selector1, combinator, selector2): the facade and the
\* operands are left as the call left them.
Combine(selector1, combinator, selector2, text) ==
  LET r == cssSelectorBuilder_combine(facade, chains, selector1, combinator, selector2)
  IN  /\ Len(denoted) < MaxCombines
      /\ facade' = r.self
      /\ chains' = r.heap
      /\ denoted' = Append(denoted, text)
      /\ last' = [op |-> "combine", on |-> 0, type |-> r.type, value |-> r.value,
                  left |-> selector1, combinator |-> combinator, right |-> selector2,
                  text |-> text]
      /\ UNCHANGED <<history, locals>>

\* cssSelectorBuilder.stringify()
FacadeStringify ==
  LET r == cssSelectorBuilder_stringify(facade)
  IN  /\ facade' = r.self
      /\ last' = Call("facade.stringify", 0, r)
      /\ UNCHANGED <<chains, history, denoted, locals>>

\* What the caller can pass to combine: a chain it built, or the value an earlier
\* combine call returned.
Refs == {SelectorRef(i) : i \in 1..Len(chains)} \cup {FacadeRef(k) : k \in 1..Len(denoted)}

InitCombine ==
  /\ chains = [i \in 1..Len(BuiltCalls) |-> Build(BuiltCalls[i])]
  /\ facade = NewFacade
  /\ last = NoCall
  /\ history = BuiltCalls
  /\ denoted = <<>>
  /\ locals = NoLocals

NextCombine ==
  \/ \E selector1 \in Refs, selector2 \in Refs, combinator \in Combinators :
       Combine(selector1, combinator, selector2,
               Denotes(selector1) \o " " \o combinator \o " " \o Denotes(selector2))
  \/ FacadeStringify

\* The caller combines the chains it has built and reads the facade.
SpecCombine == InitCombine /\ [][NextCombine]_vars

\* ------------------------------------------- building and combining
\* The most accepted builder calls and combine calls, together, of a caller that
\* does both.
MaxCalls == 3

\* The methods and the value such a caller uses.
MixedMethods == {"element", "class", "pseudoElement"}
MixedValues == {"a"}

\* cssSelectorBuilder[method](value) for the six factory methods.
FacadeInvoke(method, value) ==
  CASE method = "element" -> cssSelectorBuilder_element(value)
    [] method = "id" -> cssSelectorBuilder_id(value)
    [] method = "class" -> cssSelectorBuilder_class(value)
    [] method = "attr" -> cssSelectorBuilder_attr(value)
    [] method = "pseudoClass" -> cssSelectorBuilder_pseudoClass(value)
    [] method = "pseudoElement" -> cssSelectorBuilder_pseudoElement(value)

Within(heap, texts) == TotalFragments(heap) + Len(texts) <= MaxCalls

\* A factory method that also clears the stored result.
Make_resetting(method, value) ==
  LET r == FacadeInvoke(method, value)
  IN  /\ r.type = "throw" \/ Within(Append(chains, r.self), denoted)
      /\ chains' = IF r.type = "this" THEN Append(chains, r.self) ELSE chains
      /\ history' = IF r.type = "this"
                    THEN Append(history, << <<method, value>> >>)
                    ELSE history
      /\ last' = Call(method, 0, r)
      /\ facade' = NewFacade
      /\ UNCHANGED <<denoted, locals>>

\* cssSelectorBuilder[method](value): a new Selector, kept when the call returns it.
Make(method, value) ==
  LET r == FacadeInvoke(method, value)
  IN  /\ r.type = "throw" \/ Within(Append(chains, r.self), denoted)
      /\ chains' = IF r.type = "this" THEN Append(chains, r.self) ELSE chains
      /\ history' = IF r.type = "this"
                    THEN Append(history, << <<method, value>> >>)
                    ELSE history
      /\ last' = Call(method, 0, r)
      /\ UNCHANGED <<facade, denoted, locals>>

\* A builder call that writes to one Selector all chains share.
OnChain_shared(b, method, value) ==
  LET r == Invoke(chains[b], method, value)
  IN  /\ r.type = "throw" \/ Within([chains EXCEPT ![b] = r.self], denoted)
      /\ chains' = [c \in 1..Len(chains) |-> r.self]
      /\ history' = IF r.type = "this"
                    THEN [history EXCEPT ![b] = Append(@, <<method, value>>)]
                    ELSE history
      /\ last' = Call(method, b, r)
      /\ UNCHANGED <<facade, denoted, locals>>

\* chains[b][method](value)
OnChain(b, method, value) ==
  LET r == Invoke(chains[b], method, value)
  IN  /\ r.type = "throw" \/ Within([chains EXCEPT ![b] = r.self], denoted)
      /\ chains' = [chains EXCEPT ![b] = r.self]
      /\ history' = IF r.type = "this"
                    THEN [history EXCEPT ![b] = Append(@, <<method, value>>)]
                    ELSE history
      /\ last' = Call(method, b, r)
      /\ UNCHANGED <<facade, denoted, locals>>

NextMixed ==
  \/ \E method \in MixedMethods, value \in MixedValues : Make(method, value)
  \/ \E b \in 1..Len(chains), method \in MixedMethods, value \in MixedValues :
       OnChain(b, method, value)
  \/ \E b \in 1..Len(chains) : Stringify(b)
  \/ \E selector1 \in Refs, selector2 \in Refs, combinator \in Combinators :
       /\ Within(chains, Append(denoted, ""))
       /\ Combine(selector1, combinator, selector2,
                  Denotes(selector1) \o " " \o combinator \o " " \o Denotes(selector2))
  \/ FacadeStringify

\* The caller builds chains, combines them and reads the facade, in any order.
SpecMixed == Init /\ [][NextMixed]_vars

\* ------------------------------------------------------ Rectangle calls
\* r = new Rectangle(width, height)
NewRectangle(width, height) ==
  /\ locals' = [locals EXCEPT !.op = "Rectangle", !.width = width, !.height = height,
                               !.rect = Rectangle(width, height)]
  /\ UNCHANGED <<chains, facade, last, history, denoted>>

\* r.getArea() on the Rectangle made last
GetArea ==
  /\ locals.op \in {"Rectangle", "getArea"}
  /\ locals' = [locals EXCEPT !.op = "getArea", !.area = Rectangle_getArea(locals.rect)]
  /\ UNCHANGED <<chains, facade, last, history, denoted>>

Sides == (0 - MaxSide)..MaxSide

NextRectangle ==
  \/ \E width \in Sides, height \in Sides : NewRectangle(width, height)
  \/ GetArea

\* The caller makes rectangles and reads their areas.
SpecRectangle == Init /\ [][NextRectangle]_vars

\* ------------------------------------------------ getJSON, fromJSON calls
\* text = getJSON(obj)
GetJSON(obj) ==
  /\ locals.op = "none"
  /\ locals' = [locals EXCEPT !.op = "getJSON", !.obj = obj, !.text = getJSON(obj)]
  /\ UNCHANGED <<chains, facade, last, history, denoted>>

\* result = fromJSON(proto, json)
FromJSON(proto, json) ==
  /\ locals.op = "getJSON"
  /\ locals' = [locals EXCEPT !.op = "fromJSON", !.proto = proto, !.json = json,
                               !.result = fromJSON(proto, json)]
  /\ UNCHANGED <<chains, facade, last, history, denoted>>

\* The sequences of at most n elements of a set.
SeqsUpTo(set, n) == UNION {[1..k -> set] : k \in 0..n}

Radius == <<"r", "a", "d", "i", "u", "s">>
GetAreaName == <<"g", "e", "t", "A", "r", "e", "a">>

\* The methods a prototype defines: Circle.prototype has getArea.
MethodsOf(proto) == IF proto = "Circle.prototype" THEN {GetAreaName} ELSE {}

\* object[name]: an own field first, then a method of the prototype.
Get(object, name) ==
  IF \E i \in 1..Len(object.items) : object.items[i].key = name
  THEN LET i == CHOOSE i \in 1..Len(object.items) : object.items[i].key = name
       IN  [found |-> "field", value |-> object.items[i].value, of |-> "own"]
  ELSE IF name \in MethodsOf(object.proto)
  THEN [found |-> "method", value |-> JSNull, of |-> object.proto]
  ELSE [found |-> "undefined", value |-> JSNull, of |-> "none"]

\* The values serialized: numbers, strings, booleans and null, the sequences and
\* mappings of at most MaxLen of these, and the sequences and mappings of one such
\* sequence or mapping.
Numbers == {0 - 7, 0, 120}
StringChars == {"a", "\"", "\\"}
Keys == {Radius, GetAreaName}
Leaves ==
  {JSNumber(n) : n \in Numbers} \cup {JSString(s) : s \in SeqsUpTo(StringChars, MaxLen)}
    \cup {JSBoolean(b) : b \in BOOLEAN} \cup {JSNull}
Members(values) ==
  {items \in SeqsUpTo({Item(key, value) : key \in Keys, value \in values}, MaxLen) :
     \A i, j \in 1..Len(items) : items[i].key = items[j].key => i = j}
Flat ==
  {JSArray(elements) : elements \in SeqsUpTo(Leaves, MaxLen)}
    \cup {JSObject(items) : items \in Members(Leaves)}
Nested ==
  {JSArray(<<value>>) : value \in Flat}
    \cup {JSObject(<<Item(key, value)>>) : key \in Keys, value \in Flat}
Inputs == Leaves \cup Flat \cup Nested

Protos == {"Circle.prototype", "null"}

\* Texts that are not JSON.
Malformed == {<<"{">>, <<"[", "1", ",", "]">>}

NextJSON ==
  \/ \E obj \in Inputs : GetJSON(obj)
  \/ \E proto \in Protos, json \in {locals.text} \cup Malformed : FromJSON(proto, json)

\* The caller serializes a value and deserializes a text.
SpecJSON == Init /\ [][NextJSON]_vars

\* -------------------------------------------------------------- claims
\* The categories a call may write only once.
Singletons == {"element", "id", "pseudoElement"}

\* Some category strictly after `method` in canonical order holds a fragment.
LaterPopulated(self, method) ==
  \E later \in Methods : Rank(later) > Rank(method) /\ Len(self.selectors[later]) > 0

\* The number of calls of one category among `calls`.
CallsOf(calls, method) == Cardinality({i \in 1..Len(calls) : calls[i][1] = method})

\* The step is a builder call on an existing chain (not a facade call).
BuilderCall == last'.op \in Methods /\ last'.on \in 1..Len(chains)

\* C1: on every builder the accepted calls, in call order, have a non-decreasing
\* canonical category rank, and every category stores exactly one fragment per
\* accepted call of that category: no fragment is ever stored in a category that
\* precedes an already populated one.
C1_AcceptedCallsMonotonic ==
  \A b \in 1..Len(chains) :
    /\ \A i \in 1..Len(history[b]) : \A j \in i..Len(history[b]) :
         Rank(history[b][i][1]) <= Rank(history[b][j][1])
    /\ \A method \in Methods :
         Len(chains[b].selectors[method]) = CallsOf(history[b], method)

\* C1 witness: a builder that accepted calls of two different categories has just
\* rejected a call for being out of order.
C1_Witness ==
  /\ last.on \in 1..Len(chains)
  /\ last.type = "throw"
  /\ last.value = NewSelector.errors.order
  /\ Len(history[last.on]) = 2
  /\ Rank(history[last.on][1][1]) < Rank(history[last.on][2][1])

\* C2: in every reachable state the element, id and pseudoElement lists of every
\* builder hold at most one fragment.
C2_SingletonCategories ==
  \A b \in 1..Len(chains) : \A method \in Singletons :
    Len(chains[b].selectors[method]) <= 1

\* C2 witness: a second id call has just been made on a builder that holds an id.
C2_Witness ==
  /\ last.op = "id"
  /\ last.on \in 1..Len(chains)
  /\ last.type = "throw"
  /\ Len(chains[last.on].selectors.id) = 1

\* C3 as claimed: whenever a category strictly after C holds a fragment, a call
\* writing C fails with the order error.
C3_LaterPopulatedIsOrderError ==
  [][BuilderCall /\ LaterPopulated(chains[last'.on], last'.op)
       => last'.type = "throw" /\ last'.value = NewSelector.errors.order]_vars

\* C3 amended: whenever a category strictly after C holds a fragment, a call
\* writing C is rejected: with the duplicate error when C is element, id or
\* pseudoElement and already holds a fragment, with the order error otherwise.
C3_LaterPopulatedIsRejected ==
  [][BuilderCall /\ LaterPopulated(chains[last'.on], last'.op)
       => /\ last'.type = "throw"
          /\ last'.value =
               IF last'.op \in Singletons
                    /\ Len(chains[last'.on].selectors[last'.op]) > 0
               THEN NewSelector.errors.duplicate
               ELSE NewSelector.errors.order]_vars

\* C3 witness: id has just been rejected with the order error on a builder that
\* holds a class fragment and no id.
C3_Witness ==
  /\ last.op = "id"
  /\ last.on \in 1..Len(chains)
  /\ last.type = "throw"
  /\ last.value = NewSelector.errors.order
  /\ Len(chains[last.on].selectors.class) > 0
  /\ Len(chains[last.on].selectors.id) = 0

\* C4: a call to element, id or pseudoElement on a builder whose list of that
\* category already holds a fragment fails with the duplicate error, whatever the
\* other categories hold.
C4_DuplicateIsDuplicateError ==
  [][BuilderCall /\ last'.op \in Singletons
       /\ Len(chains[last'.on].selectors[last'.op]) > 0
       => last'.type = "throw" /\ last'.value = NewSelector.errors.duplicate]_vars

\* C4 witness: element has just been rejected as a duplicate on a builder that also
\* holds a fragment of a later category.
C4_Witness ==
  /\ last.op = "element"
  /\ last.on \in 1..Len(chains)
  /\ last.type = "throw"
  /\ last.value = NewSelector.errors.duplicate
  /\ LaterPopulated(chains[last.on], "element")

\* C5: a rejected builder call leaves all the lists of its builder as they were,
\* and stringify() returns afterwards what it would have returned before.
C5_RejectedCallChangesNothing ==
  [][BuilderCall /\ last'.type = "throw"
       => /\ chains' = chains
          /\ Selector_stringify(chains'[last'.on]).value
               = Selector_stringify(chains[last'.on]).value]_vars

\* C5 witness: class has just been rejected on a builder.
C5_Witness ==
  /\ last.op = "class"
  /\ last.on \in 1..Len(chains)
  /\ last.type = "throw"

\* A call writing `method` meets the claimed conditions of acceptance.
Acceptable(self, method) ==
  /\ ~LaterPopulated(self, method)
  /\ method \in Singletons => Len(self.selectors[method]) = 0

\* C6: a call writing C is accepted whenever no category strictly after C is
\* populated and C, if a singleton category, is empty; an accepted call appends
\* exactly one fragment (its value in the category's notation) to the end of C's
\* list, leaves every other category as it was and returns the same builder.
C6_AcceptedCall ==
  /\ [](\A b \in 1..Len(chains) : \A method \in Methods : \A value \in Values :
          Acceptable(chains[b], method)
            => Invoke(chains[b], method, value).type = "this")
  /\ [][BuilderCall /\ last'.type # "throw"
          => /\ last'.type = "this"
             /\ Acceptable(chains[last'.on], last'.op)
             /\ \E value \in Values :
                  chains' = [chains EXCEPT ![last'.on].selectors[last'.op] =
                               Append(@, Fragment(last'.op, value))]]_vars

\* C6 witness: a second class call has just been accepted on a builder.
C6_Witness ==
  /\ last.op = "class"
  /\ last.on \in 1..Len(chains)
  /\ last.type = "this"
  /\ Len(chains[last.on].selectors.class) = 2

\* C7: stringify() on a builder returns the text its accepted calls denote: the
\* element value, '#'+id, each '.'+class, each '['+attr+']', each ':'+pseudoClass,
\* '::'+pseudoElement, categories in canonical order, each in call order, with no
\* separator; id('main').class('container').class('editable') renders
\* '#main.container.editable'.
C7_StringifyRendersAcceptedCalls ==
  /\ last.op = "stringify" => last.value = Rendering(history[last.on])
  /\ Selector_stringify(Build(<< <<"id", "main">>, <<"class", "container">>,
                                 <<"class", "editable">> >>)).value
       = "#main.container.editable"

\* C7 witness: stringify() has just rendered a builder that accepted two calls of
\* one category with different values.
C7_Witness ==
  /\ last.op = "stringify"
  /\ Len(history[last.on]) = 2
  /\ history[last.on][1][1] = history[last.on][2][1]
  /\ history[last.on][1][2] # history[last.on][2][2]

\* C8: stringify() on a builder changes no fragment list, and a second call right
\* after it (no accepted mutation in between) returns the same string.
C8_StringifyIsPure ==
  [][last'.op = "stringify"
       => /\ chains' = chains
          /\ Selector_stringify(chains'[last'.on]).value = last'.value
          /\ last.op = "stringify" /\ last.on = last'.on => last'.value = last.value]_vars

\* C8 witness: stringify() has just rendered a builder that holds class fragments.
C8_Witness ==
  /\ last.op = "stringify"
  /\ Len(chains[last.on].selectors.class) > 0
  /\ last.value # ""

\* C9: combine(left, combinator, right) on two builder chains stores on the facade
\* left.stringify() + ' ' + combinator + ' ' + right.stringify(), whatever the
\* combinator, returns the facade itself and leaves the fragments of the chains as
\* their accepted calls built them; element('div').id('main') combined by '+' with
\* element('table').id('data') gives 'div#main + table#data'.
C9_CombineOfChains ==
  last.op = "combine" /\ last.left.kind = "Selector" /\ last.right.kind = "Selector"
    => /\ facade.hasResult
       /\ facade.result = Selector_stringify(chains[last.left.at]).value \o " "
                            \o last.combinator \o " "
                            \o Selector_stringify(chains[last.right.at]).value
       /\ last.type = "this"
       /\ \A b \in 1..Len(chains) : chains[b] = Build(history[b])
       /\ cssSelectorBuilder_combine(
            NewFacade,
            <<Build(<< <<"element", "div">>, <<"id", "main">> >>),
              Build(<< <<"element", "table">>, <<"id", "data">> >>)>>,
            SelectorRef(1), "+", SelectorRef(2)).self.result
            = "div#main + table#data"

\* C9 witness: element('a').id('b') has just been combined with class('a') by '?',
\* which is no css combinator.
C9_Witness ==
  /\ last.op = "combine"
  /\ last.left = SelectorRef(1)
  /\ last.right = SelectorRef(2)
  /\ last.combinator = "?"
  /\ facade.result = "a#b ? .a"

\* C10: after combine(left, c, right), where each of left and right is a builder
\* chain or the value an earlier combine returned, the facade renders
\* text(left) + ' ' + c + ' ' + text(right), text(x) being what x denoted when built.
C10_CombineJoinsWhatOperandsDenoted ==
  last.op = "combine" => facade.hasResult /\ facade.result = last.text

\* C15: an object built by Rectangle(w, h), w and h integers, has width w and
\* height h, and its getArea() returns w * h.
C15_RectangleArea ==
  /\ locals.op \in {"Rectangle", "getArea"}
       => locals.rect.width = locals.width /\ locals.rect.height = locals.height
  /\ locals.op = "getArea" => locals.area = locals.width * locals.height

\* C15 witness: getArea() has just returned the area of a rectangle with two
\* different sides, one of them negative.
C15_Witness ==
  /\ locals.op = "getArea"
  /\ locals.width = 0 - 2
  /\ locals.height = 3
  /\ locals.area = 0 - 6

\* What a template literal makes of ref.stringify() in the current state.
Stored(ref) ==
  IF ref.kind = "Selector"
  THEN Selector_stringify(chains[ref.at]).value
  ELSE IF facade.hasResult THEN facade.result ELSE "undefined"

\* C11: once a combine call has been made the facade holds a result; every combine
\* call stores the string it forms out of its operands in place of whatever was
\* stored; a facade factory method, a builder method and a stringify call, on a
\* chain or on the facade, leave the stored result as it was; and stringify() on
\* the facade returns the stored result, which is therefore the one of the most
\* recent combine call.
C11_FacadeReturnsLatestCombine ==
  /\ [](denoted # <<>> => facade.hasResult)
  /\ [][/\ (last'.op = "combine"
              => (/\ facade'.hasResult
                  /\ facade'.result = Stored(last'.left) \o " " \o last'.combinator
                                        \o " " \o Stored(last'.right)))
        /\ (last'.op # "combine" => facade' = facade)
        /\ ((last'.op = "facade.stringify" /\ facade.hasResult)
              => (last'.type = "string" /\ last'.value = facade.result))]_vars

\* C11 witness: two combine calls of a chain stored different strings, and the
\* facade stringify() after them has returned the second.
C11_Witness ==
  /\ Len(denoted) = 2
  /\ denoted[1] # denoted[2]
  /\ last.op = "facade.stringify"
  /\ last.type = "string"
  /\ last.value = denoted[2]
  /\ facade.result = denoted[2]

\* C12: stringify() on the facade before any combine call returns undefined (or
\* fails); it never returns a selector string.
C12_StringifyBeforeCombine ==
  denoted = <<>>
    => /\ cssSelectorBuilder_stringify(facade).type = "undefined"
       /\ last.op = "facade.stringify" => last.type = "undefined"

\* C12 witness: the facade's stringify() has just been called before any combine.
C12_Witness ==
  /\ denoted = <<>>
  /\ last.op = "facade.stringify"

\* C13: every facade category method makes a new builder, equal to one built by
\* that call alone, and leaves the others as they were; a call on one chain leaves
\* every other chain as it was; and every chain is at all times what its own
\* accepted calls build, so its fragments, the outcome of its next call and its
\* stringify() output do not depend on the calls made on another chain.
C13_ChainsAreIndependent ==
  /\ [](\A b \in 1..Len(chains) : chains[b] = Build(history[b]))
  /\ [][/\ (last'.on \in 1..Len(chains)
              => \A c \in 1..Len(chains) : c # last'.on => chains'[c] = chains[c])
        /\ (last'.op \in Methods /\ last'.on = 0 /\ last'.type = "this"
              => (/\ Len(chains') = Len(chains) + 1
                  /\ \A c \in 1..Len(chains) : chains'[c] = chains[c]
                  /\ \E value \in Values :
                       chains'[Len(chains')] = Build(<< <<last'.op, value>> >>)))]_vars

\* C13 witness: two chains exist and differ, the first has accepted a second call
\* while the second chain existed, and the second has just been rendered as what
\* its own single call denotes.
C13_Witness ==
  /\ Len(chains) = 2
  /\ Len(history[1]) = 2
  /\ Len(history[2]) = 1
  /\ chains[1] # chains[2]
  /\ last.op = "stringify"
  /\ last.on = 2
  /\ last.value = Rendering(history[2])

\* C14: a facade stringify() that directly follows a combine of builder chains
\* returns the string of that combine: a caller's own string when its combine and
\* stringify are not separated by another combine, the other caller's string when
\* that caller's combine is the one in between.
C14_StringifyReadsLatestCombine ==
  [][(/\ last.op = "combine"
      /\ last.left.kind = "Selector"
      /\ last.right.kind = "Selector"
      /\ last'.op = "facade.stringify")
       => (/\ last'.type = "string"
           /\ last'.value = last.text
           /\ last'.value = denoted[Len(denoted)])]_vars

\* C14 witness: two combine calls with different strings were made before the
\* facade's stringify(), which has returned the string of the second.
C14_Witness ==
  /\ Len(denoted) = 2
  /\ denoted[1] # denoted[2]
  /\ last.op = "facade.stringify"
  /\ last.value = denoted[2]

\* C17: in every reachable builder state the slot after pseudoElement
\* (combination) is empty and the order check of pseudoElement passes, so a
\* pseudoElement call is rejected only as a duplicate.
C17_PseudoElementOrderCheckPasses ==
  /\ [](\A b \in 1..Len(chains) :
          /\ Len(chains[b].selectors.combination) = 0
          /\ ~checkOrder(chains[b], "pseudoElement"))
  /\ [][BuilderCall /\ last'.op = "pseudoElement" /\ last'.type = "throw"
          => /\ last'.value = NewSelector.errors.duplicate
             /\ Len(chains[last'.on].selectors.pseudoElement) > 0]_vars

\* C17 witness: a pseudoElement call has just been accepted on a builder that
\* holds a fragment of an earlier category.
C17_Witness ==
  /\ last.op = "pseudoElement"
  /\ last.on \in 1..Len(chains)
  /\ last.type = "this"
  /\ Len(history[last.on]) = 2

\* The highest rank written so far by a sequence of accepted calls, 0 for none.
Cursor(calls) ==
  LET high[i \in 0..Len(calls)] ==
        IF i = 0 THEN 0
        ELSE IF Rank(calls[i][1]) > high[i - 1] THEN Rank(calls[i][1]) ELSE high[i - 1]
  IN  high[Len(calls)]

\* C18: in every reachable builder state and for every category C, the scanning
\* order check rejects C if and only if rank(C) is strictly below the highest rank
\* written so far.
C18_ScanEqualsCursor ==
  \A b \in 1..Len(chains) : \A method \in Methods :
    checkOrder(chains[b], method) <=> Rank(method) < Cursor(history[b])

\* C18 witness: a builder whose highest rank written is that of attr, reached by
\* two accepted calls, has just rejected a call.
C18_Witness ==
  /\ last.on \in 1..Len(chains)
  /\ last.type = "throw"
  /\ Len(history[last.on]) = 2
  /\ Cursor(history[last.on]) = Rank("attr")

\* C19: a call to element, id or pseudoElement that is both a duplicate and out of
\* order fails with the duplicate error, not the order error.
C19_DuplicateBeforeOrder ==
  [][(/\ BuilderCall
      /\ last'.op \in Singletons
      /\ Len(chains[last'.on].selectors[last'.op]) > 0
      /\ LaterPopulated(chains[last'.on], last'.op))
       => (/\ last'.type = "throw"
           /\ last'.value = NewSelector.errors.duplicate
           /\ last'.value # NewSelector.errors.order)]_vars

\* C19 witness: id('a').class('b').id(..) has just thrown the duplicate error.
C19_Witness ==
  /\ last.op = "id"
  /\ last.on \in 1..Len(chains)
  /\ last.type = "throw"
  /\ last.value = NewSelector.errors.duplicate
  /\ history[last.on] = << <<"id", "a">>, <<"class", "b">> >>

\* C20: once a builder stores a pseudoElement fragment every builder call on it is
\* rejected, and its fragments and its stringify() output never change again.
C20_PseudoElementIsTerminal ==
  /\ [](\A b \in 1..Len(chains) : \A method \in Methods : \A value \in Values :
          Len(chains[b].selectors.pseudoElement) > 0
            => Invoke(chains[b], method, value).type = "throw")
  /\ [][\A b \in 1..Len(chains) :
          Len(chains[b].selectors.pseudoElement) > 0
            => (/\ chains'[b] = chains[b]
                /\ Selector_stringify(chains'[b]).value
                     = Selector_stringify(chains[b]).value
                /\ (last'.on = b /\ last'.op \in Methods => last'.type = "throw"))]_vars

\* C20 witness: a builder that stores a pseudoElement fragment has just rejected a
\* call to pseudoClass.
C20_Witness ==
  /\ last.op = "pseudoClass"
  /\ last.on \in 1..Len(chains)
  /\ last.type = "throw"
  /\ Len(chains[last.on].selectors.pseudoElement) = 1

====
